---- MODULE Spec2Model ----
(***************************************************************************)
(* State-machine model of src/app.py: the short-code allocator over the    *)
(* KeyPool table (SQLite through SQLAlchemy), the url_mapping collection   *)
(* (MongoDB), the lru_cache in front of it, the expiry sweeper and the two  *)
(* request handlers.                                                        *)
(*                                                                         *)
(* Each request thread and the scheduler thread is a process; one action   *)
(* is one step of a handler between two accesses to shared state (a store  *)
(* statement, a commit, a cache access).  Purely local computation is      *)
(* folded into the step that follows it.                                   *)
(*                                                                         *)
(* The database is "sqlite:///short_codes.db" (src/app.py:17).  The SQLite *)
(* dialect of SQLAlchemy renders no FOR UPDATE clause, and the savepoint   *)
(* opened by begin_nested() is released when the with-block at line 48-49  *)
(* ends, so the SELECT of allocate_key holds no lock when the row is       *)
(* marked used and committed: select and commit are separate steps.        *)
(***************************************************************************)
EXTENDS Integers, Sequences, FiniteSets, TLC

\* ---------------------------------------------------------------- bounds
MaxOps == 3        \* external events of one behaviour: requests, scheduler firings, clock ticks
MaxDepth == 2      \* deepest recursion of allocate_key the model follows

\* ------------------------------------------------------- program domains
\* The strings generate_short_code can return (8 alphanumerics, abstracted).
Codes == {"a", "b"}
Creators == {"c1", "c2"}
Readers == {"r1"}

\* long_url values of a request body: each client posts its own URL, or none; ""
\* stands for a missing or empty long_url (both are falsy at line 134).
NoUrl == ""
UrlOf(c) == IF c = "c1" THEN "u1" ELSE "u2"
Urls(c) == {UrlOf(c), NoUrl}
\* expires_in_days values of a request body.
Days == {0, 1}

\* Python's None as the result of get_url_mapping / of a query's first().
None == <<>>
NoRow == 0
\* A null expires_at (a mapping that never expires).
NoExpiry == -1

VARIABLES
    key_pool,       \* KeyPool table: sequence of rows [short_code, used], by id
    url_mapping,    \* Mongo collection: set of docs [id, short_code, long_url, expires_at]
    cache,          \* lru_cache of get_url_mapping: short_code -> result
    now,            \* the clock
    ops,            \* external events so far
    swept,          \* history: a sweep has deleted a mapping, in this run or an earlier one
    issued,         \* history: per code, allocate_key returns since its slot was last freed
    cpc, long_url, expires_at, key_entry, short_code, status, depth,   \* shorten_url threads
    spc, sweep_now, expired_docs, idx, s_entry, s_used,                \* cleanup_expired_urls
    recycle_failed, claimed,                                           \* history of the running sweep
    rpc, rkey, rresult, rstatus, rurl                                  \* redirect_short_url threads

vars == <<key_pool, url_mapping, cache, now, ops, swept, issued,
          cpc, long_url, expires_at, key_entry, short_code, status, depth,
          spc, sweep_now, expired_docs, idx, s_entry, s_used, recycle_failed, claimed,
          rpc, rkey, rresult, rstatus, rurl>>

storeVars == <<key_pool, url_mapping>>
creatorVars == <<cpc, long_url, expires_at, key_entry, short_code, status, depth>>
sweepVars == <<spc, sweep_now, expired_docs, idx, s_entry, s_used, recycle_failed, claimed>>
readerVars == <<rpc, rkey, rresult, rstatus, rurl>>

\* ------------------------------------------------------------ KeyPool
Rows == 1..Len(key_pool)
\* KeyPool.query.filter_by(used=False).first(): the first free row, or no row.
FreeRows == {i \in Rows : ~key_pool[i].used}
RowsOf(code) == {i \in Rows : key_pool[i].short_code = code}
Min(S) == CHOOSE x \in S : \A y \in S : x <= y
\* (A select that never finds a free row.)
FirstFreeNone == NoRow
FirstFree == IF FreeRows = {} THEN NoRow ELSE Min(FreeRows)
FirstOf(code) == IF RowsOf(code) = {} THEN NoRow ELSE Min(RowsOf(code))
\* (A KeyPool without the unique constraint.)
UniqueViolationNone(code) == FALSE
\* unique=True on short_code: the INSERT of a row raises IntegrityError.
UniqueViolation(code) == RowsOf(code) # {}
SetUsed(i, u) == [key_pool EXCEPT ![i].used = u]
SlotUsed(code) == \E i \in RowsOf(code) : key_pool[i].used
SlotFree(code) == RowsOf(code) # {} /\ \A i \in RowsOf(code) : ~key_pool[i].used

\* --------------------------------------------------------- url_mapping
DocsOf(code) == {d \in url_mapping : d.short_code = code}
\* What find_one({"short_code": code}) followed by line 85 can return.
FindOne(code) ==
    IF DocsOf(code) = {} THEN {None}
    ELSE {<<d.long_url, d.expires_at>> : d \in DocsOf(code)}
\* (A scan that lists every mapping, expired or not.)
ExpiredBeforeAny(t) == url_mapping
\* find({"expires_at": {"$lt": t}})
ExpiredBefore(t) == {d \in url_mapping : d.expires_at # NoExpiry /\ d.expires_at < t}
\* The _id of a new document: ObjectIds are never reused; an id that neither the
\* collection nor the running sweep's list holds is as good as a fresh one.
HeldIds == {d.id : d \in url_mapping} \cup {expired_docs[i].id : i \in 1..Len(expired_docs)}
NewId == CHOOSE n \in 0..Cardinality(HeldIds) : n \notin HeldIds
RECURSIVE ById(_)
ById(S) ==
    IF S = {} THEN <<>>
    ELSE LET d == CHOOSE x \in S : \A y \in S : x.id <= y.id
         IN <<d>> \o ById(S \ {d})

\* --------------------------------------------------------------- cache
CachePut(k, v) == [x \in (DOMAIN cache) \cup {k} |-> IF x = k THEN v ELSE cache[x]]
EmptyCache == <<>>

\* The two stores outlive the process (a database file, a MongoDB server): the
\* service starts on empty stores, or on the stores an earlier run left behind:
\* here one mapping of an earlier request with its slot marked used, or the slot
\* of an earlier mapping that a sweep has deleted and recycled.
EarlierDoc == [id |-> 0, short_code |-> "a", long_url |-> "u0", expires_at |-> 0]

Init ==
    /\ \/ /\ key_pool = <<>>
          /\ url_mapping = {}
          /\ issued = [k \in Codes |-> 0]
          /\ swept = FALSE
       \/ /\ key_pool = <<[short_code |-> EarlierDoc.short_code, used |-> TRUE]>>
          /\ url_mapping = {EarlierDoc}
          /\ issued = [k \in Codes |-> IF k = EarlierDoc.short_code THEN 1 ELSE 0]
          /\ swept = FALSE
       \/ /\ key_pool = <<[short_code |-> EarlierDoc.short_code, used |-> FALSE]>>
          /\ url_mapping = {}
          /\ issued = [k \in Codes |-> 0]
          /\ swept = TRUE
    /\ cache = EmptyCache
    /\ now = 0
    /\ ops = 0
    /\ cpc = [c \in Creators |-> "idle"]
    /\ long_url = [c \in Creators |-> NoUrl]
    /\ expires_at = [c \in Creators |-> 0]
    /\ key_entry = [c \in Creators |-> NoRow]
    /\ short_code = [c \in Creators |-> ""]
    /\ status = [c \in Creators |-> 0]
    /\ depth = [c \in Creators |-> 0]
    /\ spc = "idle"
    /\ sweep_now = 0
    /\ expired_docs = <<>>
    /\ idx = 0
    /\ s_entry = NoRow
    /\ s_used = FALSE
    /\ recycle_failed = {}
    /\ claimed = {}
    /\ rpc = [r \in Readers |-> "idle"]
    /\ rkey = [r \in Readers |-> ""]
    /\ rresult = [r \in Readers |-> None]
    /\ rstatus = [r \in Readers |-> 0]
    /\ rurl = [r \in Readers |-> ""]

\* An external event: a request arrives, the scheduler fires, the clock ticks.
Begin == ops < MaxOps /\ ops' = ops + 1

\* The clock advances.
Tick ==
    /\ Begin
    /\ now' = now + 1
    /\ UNCHANGED <<storeVars, cache, swept, issued, creatorVars, sweepVars, readerVars>>

\* ------------------------------------------------ shorten_url (POST /shorten)
\* (A handler without the check of line 134.)
RejectedNever(url) == FALSE
\* line 134: "if not long_url".
Rejected(url) == url = NoUrl

\* Lines 131-138: read the body, validate, compute expires_at.  A request without
\* long_url is answered 400 here and touches nothing else.
ShortenStart(c) ==
    /\ cpc[c] \in {"idle", "done"}
    /\ Begin
    /\ \E url \in Urls(c), days \in Days :
        /\ long_url' = [long_url EXCEPT ![c] = url]
        /\ IF Rejected(url)
           THEN /\ status' = [status EXCEPT ![c] = 400]
                /\ cpc' = [cpc EXCEPT ![c] = "done"]
                /\ expires_at' = [expires_at EXCEPT ![c] = 0]
           ELSE /\ status' = [status EXCEPT ![c] = 0]
                /\ cpc' = [cpc EXCEPT ![c] = "select"]
                /\ expires_at' = [expires_at EXCEPT ![c] = now + days]
    /\ key_entry' = [key_entry EXCEPT ![c] = NoRow]
    /\ short_code' = [short_code EXCEPT ![c] = ""]
    /\ depth' = [depth EXCEPT ![c] = 0]
    /\ UNCHANGED <<storeVars, cache, now, swept, issued, sweepVars, readerVars>>

\* allocate_key, lines 48-49: select the first free row.  No lock outlives the step.
AllocSelect(c) ==
    /\ cpc[c] = "select"
    /\ key_entry' = [key_entry EXCEPT ![c] = FirstFree]
    /\ cpc' = [cpc EXCEPT ![c] = "commit"]
    /\ UNCHANGED <<storeVars, cache, now, ops, swept, issued, long_url, expires_at,
                   short_code, status, depth, sweepVars, readerVars>>

\* The history of a successful allocate_key return of code k.
Issue(k) ==
    /\ issued' = [issued EXCEPT ![k] = @ + 1]
    /\ claimed' = IF spc = "idle" THEN claimed ELSE claimed \cup {k}

\* allocate_key, lines 51-62: mint a row when none was selected, mark the row used,
\* commit and return its code (the recursion unwinds: depth is the nesting of the running
\* call); on IntegrityError roll back and call allocate_key again.
AllocCommit(c) ==
    /\ cpc[c] = "commit"
    /\ IF key_entry[c] = NoRow
       THEN \E new_code \in Codes :
            IF UniqueViolation(new_code)
            THEN /\ depth[c] < MaxDepth
                 /\ depth' = [depth EXCEPT ![c] = @ + 1]
                 /\ cpc' = [cpc EXCEPT ![c] = "select"]
                 /\ UNCHANGED <<key_pool, short_code, issued, claimed>>
            ELSE /\ key_pool' = Append(key_pool, [short_code |-> new_code, used |-> TRUE])
                 /\ short_code' = [short_code EXCEPT ![c] = new_code]
                 /\ cpc' = [cpc EXCEPT ![c] = "insert"]
                 /\ Issue(new_code)
                 /\ depth' = [depth EXCEPT ![c] = 0]
       ELSE /\ key_pool' = SetUsed(key_entry[c], TRUE)
            /\ short_code' = [short_code EXCEPT ![c] = key_pool[key_entry[c]].short_code]
            /\ cpc' = [cpc EXCEPT ![c] = "insert"]
            /\ Issue(key_pool[key_entry[c]].short_code)
            /\ depth' = [depth EXCEPT ![c] = 0]
    /\ UNCHANGED <<url_mapping, cache, now, ops, swept, long_url, expires_at, key_entry,
                   status, spc, sweep_now, expired_docs, idx, s_entry, s_used, recycle_failed,
                   readerVars>>

\* Lines 142-143: insert the mapping document; a store failure propagates (HTTP 500).
InsertOne(c) ==
    /\ cpc[c] = "insert"
    /\ \/ /\ url_mapping' = url_mapping \cup
                {[id |-> NewId, short_code |-> short_code[c],
                  long_url |-> long_url[c], expires_at |-> expires_at[c]]}
          /\ cpc' = [cpc EXCEPT ![c] = "invalidate"]
          /\ long_url' = [long_url EXCEPT ![c] = NoUrl]
          /\ expires_at' = [expires_at EXCEPT ![c] = 0]
          /\ UNCHANGED <<status, key_entry, depth>>
       \/ /\ status' = [status EXCEPT ![c] = 500]
          /\ cpc' = [cpc EXCEPT ![c] = "done"]
          /\ key_entry' = [key_entry EXCEPT ![c] = NoRow]
          /\ expires_at' = [expires_at EXCEPT ![c] = 0]
          /\ long_url' = [long_url EXCEPT ![c] = NoUrl]
          /\ UNCHANGED <<url_mapping, depth>>
    /\ UNCHANGED <<key_pool, cache, now, ops, swept, issued, short_code, sweepVars, readerVars>>

\* (A handler that answers 201 without invalidating the cache.)
InvalidateAndRespondEarly(c) ==
    /\ cpc[c] = "invalidate"
    /\ status' = [status EXCEPT ![c] = 201]
    /\ cpc' = [cpc EXCEPT ![c] = "done"]
    /\ key_entry' = [key_entry EXCEPT ![c] = NoRow]
    /\ UNCHANGED <<storeVars, cache, now, ops, swept, issued, long_url, expires_at, short_code,
                   depth, sweepVars, readerVars>>
\* Lines 145-149: invalidate_cache(), then the 201 response.
InvalidateAndRespond(c) ==
    /\ cpc[c] = "invalidate"
    /\ cache' = EmptyCache
    /\ status' = [status EXCEPT ![c] = 201]
    /\ cpc' = [cpc EXCEPT ![c] = "done"]
    /\ key_entry' = [key_entry EXCEPT ![c] = NoRow]
    /\ UNCHANGED <<storeVars, now, ops, swept, issued, long_url, expires_at, short_code,
                   depth, sweepVars, readerVars>>

\* ------------------------------------- cleanup_expired_urls (scheduler job)
\* Lines 95-96: sample the time and list the expired documents.  The scheduler fires
\* an interval (line 106) after the start or the previous firing: the time sampled at
\* line 95 is the last reading of the clock or a later one.  An empty list ends the
\* job at line 103 with nothing done.
SweepScan ==
    /\ spc = "idle"
    /\ Begin
    /\ \E t \in {now, now + 1} :
        /\ now' = t
        /\ expired_docs' = ById(ExpiredBefore(t))
        /\ IF ExpiredBefore(t) = {}
           THEN spc' = "idle" /\ idx' = 0 /\ sweep_now' = 0
           ELSE spc' = "delete" /\ idx' = 1 /\ sweep_now' = t
    /\ recycle_failed' = {}
    /\ claimed' = {}
    /\ UNCHANGED <<storeVars, cache, swept, issued, s_entry, s_used,
                   creatorVars, readerVars>>

\* (A loop that leaves for the invalidation after its first record.)
NextDocEarly == spc' = "invalidate" /\ idx' = idx
\* The end of one iteration of the loop at line 97: the next document, or line 103.
NextDoc ==
    IF idx < Len(expired_docs)
    THEN spc' = "delete" /\ idx' = idx + 1
    ELSE spc' = "invalidate" /\ idx' = idx

\* Line 99: delete the document by _id.  A store failure propagates out of the job:
\* the rest of the batch and the invalidation are skipped.
SweepDelete ==
    /\ spc = "delete"
    /\ \/ /\ url_mapping' = url_mapping \ {expired_docs[idx]}
          /\ swept' = TRUE
          /\ spc' = "recycle_select"
          /\ UNCHANGED <<expired_docs, idx, sweep_now, recycle_failed, claimed>>
       \/ /\ spc' = "idle"
          /\ expired_docs' = <<>>
          /\ idx' = 0
          /\ sweep_now' = 0
          /\ recycle_failed' = {}
          /\ claimed' = {}
          /\ UNCHANGED <<url_mapping, swept>>
    /\ UNCHANGED <<key_pool, cache, now, ops, issued, s_entry, s_used,
                   creatorVars, readerVars>>

\* recycle_key, line 65: load the row of the code (its used flag as of now).  The
\* query is outside the try of line 68: an error it raises (the database is locked,
\* the scheduler thread has no application context) propagates out of the job.
RecycleSelect ==
    /\ spc = "recycle_select"
    /\ \/ LET code == expired_docs[idx].short_code
              i == FirstOf(code)
          IN /\ s_entry' = i
             /\ s_used' = IF i = NoRow THEN FALSE ELSE key_pool[i].used
             /\ IF i = NoRow
                THEN NextDoc
                ELSE spc' = "recycle_commit" /\ idx' = idx
             /\ UNCHANGED <<sweep_now, expired_docs, recycle_failed, claimed>>
       \/ /\ spc' = "idle"
          /\ expired_docs' = <<>>
          /\ idx' = 0
          /\ sweep_now' = 0
          /\ recycle_failed' = {}
          /\ claimed' = {}
          /\ UNCHANGED <<s_entry, s_used>>
    /\ UNCHANGED <<storeVars, cache, now, ops, swept, issued, creatorVars, readerVars>>

\* (A recycle_key that commits without freeing the row.)
RecycleWriteKeep(i, loaded) == key_pool
\* What the commit of line 69 writes: the unit of work emits an UPDATE only for an
\* attribute whose value differs from the loaded one.
RecycleWrite(i, loaded) == IF loaded THEN SetUsed(i, FALSE) ELSE key_pool

\* recycle_key, lines 67-71: set used = False and commit; a failing commit is rolled
\* back and absorbed.
RecycleCommit ==
    /\ spc = "recycle_commit"
    /\ LET code == expired_docs[idx].short_code
       IN \/ /\ key_pool' = RecycleWrite(s_entry, s_used)
             /\ issued' = IF s_used THEN [issued EXCEPT ![code] = 0] ELSE issued
             /\ UNCHANGED recycle_failed
          \/ /\ recycle_failed' = recycle_failed \cup {code}
             /\ UNCHANGED <<key_pool, issued>>
    /\ NextDoc
    /\ s_entry' = NoRow
    /\ s_used' = FALSE
    /\ UNCHANGED <<url_mapping, cache, now, ops, swept, sweep_now, expired_docs,
                   claimed, creatorVars, readerVars>>

\* Lines 103-104: the batch was not empty, clear the cache once.
SweepInvalidate ==
    /\ spc = "invalidate"
    /\ cache' = EmptyCache
    /\ spc' = "idle"
    /\ expired_docs' = <<>>
    /\ idx' = 0
    /\ sweep_now' = 0
    /\ recycle_failed' = {}
    /\ claimed' = {}
    /\ UNCHANGED <<storeVars, now, ops, swept, issued, s_entry, s_used, creatorVars, readerVars>>

\* ------------------------------------ redirect_short_url (GET /<short_code>)
\* (A handler without the check of line 121.)
ExpiredNever(e, t) == FALSE
\* Line 121: "expires_at and now > expires_at" (line 119 only attaches the UTC zone).
Expired(e, t) == e # NoExpiry /\ t > e

\* Lines 114-124: the response for a lookup result at time t.
ResponseStatus(result, t) ==
    IF result = None THEN 404
    ELSE IF Expired(result[2], t) THEN 410
    ELSE 302

ResponseUrl(result, t) ==
    IF ResponseStatus(result, t) = 302 THEN result[1] ELSE ""

\* (A handler that expires lazily: an expired result deletes the mapping and frees
\* the slot.)
RedirectStoresLazy(code, result, t) ==
    IF result # None /\ result[2] # NoExpiry /\ t > result[2]
    THEN /\ url_mapping' = url_mapping \ DocsOf(code)
         /\ key_pool' = [i \in Rows |->
                IF key_pool[i].short_code = code
                THEN [key_pool[i] EXCEPT !.used = FALSE] ELSE key_pool[i]]
    ELSE UNCHANGED storeVars
\* What the handler does to the two stores: nothing.
RedirectStores(code, result, t) == UNCHANGED storeVars

\* Line 113 with lru_cache (line 80): a hit is answered from the cache; on a miss the
\* wrapped function reads the store, and the cache is filled when it has returned.
LookupStart(r) ==
    /\ rpc[r] \in {"idle", "done"}
    /\ Begin
    /\ \E k \in Codes :
        /\ rkey' = [rkey EXCEPT ![r] = k]
        /\ IF k \in DOMAIN cache
           THEN /\ rresult' = [rresult EXCEPT ![r] = None]
                /\ rstatus' = [rstatus EXCEPT ![r] = ResponseStatus(cache[k], now)]
                /\ rurl' = [rurl EXCEPT ![r] = ResponseUrl(cache[k], now)]
                /\ rpc' = [rpc EXCEPT ![r] = "done"]
                /\ RedirectStores(k, cache[k], now)
           ELSE /\ \E v \in FindOne(k) : rresult' = [rresult EXCEPT ![r] = v]
                /\ rstatus' = [rstatus EXCEPT ![r] = 0]
                /\ rurl' = [rurl EXCEPT ![r] = ""]
                /\ rpc' = [rpc EXCEPT ![r] = "fill"]
                /\ UNCHANGED storeVars
    /\ UNCHANGED <<cache, now, swept, issued, creatorVars, sweepVars>>

\* The miss path completes: lru_cache stores the result, lines 114-124 answer.
LookupFill(r) ==
    /\ rpc[r] = "fill"
    /\ cache' = CachePut(rkey[r], rresult[r])
    /\ rstatus' = [rstatus EXCEPT ![r] = ResponseStatus(rresult[r], now)]
    /\ rurl' = [rurl EXCEPT ![r] = ResponseUrl(rresult[r], now)]
    /\ rpc' = [rpc EXCEPT ![r] = "done"]
    /\ rresult' = [rresult EXCEPT ![r] = None]
    /\ RedirectStores(rkey[r], rresult[r], now)
    /\ UNCHANGED <<now, ops, swept, issued, rkey, creatorVars, sweepVars>>

\* ------------------------------------------------------------ the system
Next ==
    \/ Tick
    \/ \E c \in Creators : ShortenStart(c)
    \/ \E c \in Creators : AllocSelect(c)
    \/ \E c \in Creators : AllocCommit(c)
    \/ \E c \in Creators : InsertOne(c)
    \/ \E c \in Creators : InvalidateAndRespond(c)
    \/ SweepScan
    \/ SweepDelete
    \/ RecycleSelect
    \/ RecycleCommit
    \/ SweepInvalidate
    \/ \E r \in Readers : LookupStart(r)
    \/ \E r \in Readers : LookupFill(r)

Spec == Init /\ [][Next]_vars

\* ================================================================ claims

Completed(c) == cpc[c] = "done" /\ status[c] = 201

\* C1: no code is returned by two allocate_key calls unless its slot was freed in
\* between (issued counts the returns of a code since its slot was last freed), and
\* the slot of a returned code is committed used.
C1_UniqueAllocation ==
    \A k \in Codes : issued[k] <= 1 /\ (issued[k] = 1 => SlotUsed(k))

\* C2: as long as no sweep has deleted anything (so no slot was ever freed: the
\* creates run against a pool without a free slot, the empty pool included), any two
\* completed create requests hold distinct codes, and the Mapping Store resolves
\* each code to the long URL of its own request and to nothing else.
C2_TwoCreates ==
    ~swept =>
        \A c1, c2 \in Creators :
            (c1 # c2 /\ Completed(c1) /\ Completed(c2)) =>
                /\ short_code[c1] # short_code[c2]
                /\ \A v \in FindOne(short_code[c1]) : v # None /\ v[1] = UrlOf(c1)

\* Both creates completed on a pool that was empty: each minted its own slot.
C2_Witness ==
    /\ ~swept
    /\ EarlierDoc \notin url_mapping
    /\ \A c \in Creators : Completed(c)
    /\ Len(key_pool) = 2
    /\ \A c \in Creators : DocsOf(short_code[c]) # {}

\* A mutation of a code is pending: its mapping is written or deleted and the
\* invalidation that belongs to the write has not run yet.
MutationPending(k) ==
    \/ \E c \in Creators : cpc[c] = "invalidate" /\ short_code[c] = k
    \/ spc # "idle" /\ \E i \in 1..Len(expired_docs) : expired_docs[i].short_code = k

\* C3: once the create or the sweep that changed a code's mapping has finished, the
\* cache holds no entry for the code that differs from what the Mapping Store holds
\* (a lookup starting then would be answered with the value from before the change).
C3_CacheCoherence ==
    \A k \in DOMAIN cache : MutationPending(k) \/ cache[k] \in FindOne(k)

\* A step in which the handler of reader r answers: on a cache hit at once, on a
\* miss when the wrapped function has returned.  Served is the lookup result the
\* answer is computed from.
Answers(r) == LookupFill(r) \/ (LookupStart(r) /\ rpc'[r] = "done")
Served(r) == IF rpc[r] = "fill" THEN rresult[r] ELSE cache[rkey'[r]]
PastExpiry(v) == v # None /\ v[2] # NoExpiry /\ now > v[2]

\* C4: a resolve answered at a time later than the mapping's expires_at never
\* answers 302: it answers 410 when the lookup still yields the mapping (from the
\* cache or the store) and 404 when it yields nothing, which is what a lookup gets
\* that starts when the store holds no mapping of the code and the cache no entry.
C4_ExpiryCorrectness ==
    [][\A r \in Readers :
        /\ Answers(r) =>
              /\ PastExpiry(Served(r)) => rstatus'[r] = 410
              /\ Served(r) = None => rstatus'[r] = 404
              /\ rstatus'[r] = 302 =>
                    /\ Served(r) # None /\ ~PastExpiry(Served(r))
                    /\ rurl'[r] = Served(r)[1]
        /\ (LookupStart(r) /\ rkey'[r] \notin DOMAIN cache /\ DocsOf(rkey'[r]) = {}) =>
              rresult'[r] = None
      ]_vars

\* A resolve was answered 410: the mapping was obtained after its expiry.
C4_Witness == \E r \in Readers : rpc[r] = "done" /\ rstatus[r] = 410

\* The sweep has run its loop to the end (only the final invalidation is left).
SweepLoopDone == spc = "invalidate"
Scanned == {expired_docs[i] : i \in 1..Len(expired_docs)}

\* C5 as stated: when a sweep cycle finishes, every mapping it scanned as expired
\* is absent from the Mapping Store and the slot of its code is free.
C5_SweepClearsAll ==
    SweepLoopDone =>
        \A d \in Scanned : d \notin url_mapping /\ SlotFree(d.short_code)

\* C5 as amended: when a sweep cycle runs to its end, every mapping it scanned as
\* expired is absent from the Mapping Store, and the slot of its code is free unless
\* the commit of recycle_key failed for that code in this cycle or an allocate_key
\* call committed a claim of the slot during the cycle.
C5_SweepEffect ==
    SweepLoopDone =>
        \A d \in Scanned :
            /\ d \notin url_mapping
            /\ \/ SlotFree(d.short_code)
               \/ d.short_code \in recycle_failed
               \/ d.short_code \in claimed

\* A cycle ran to its end and left the slots of all scanned mappings free.
C5_Witness ==
    /\ SweepLoopDone
    /\ Scanned # {}
    /\ \A d \in Scanned : d \notin url_mapping /\ SlotFree(d.short_code)

\* C6: an allocate_key call whose select runs while the pool has a free slot takes a
\* free slot (it mints nothing) and returns that slot's code, marked used: when the
\* recycled slot is the only free one left, the call returns the recycled code.
C6_RecycleReuse ==
    [][\A c \in Creators :
        /\ (AllocSelect(c) /\ FreeRows # {}) => key_entry'[c] \in FreeRows
        /\ (AllocCommit(c) /\ key_entry[c] # NoRow) =>
              /\ cpc'[c] = "insert"
              /\ short_code'[c] = key_pool[key_entry[c]].short_code
              /\ key_pool'[key_entry[c]].used
              /\ Len(key_pool') = Len(key_pool)
      ]_vars

\* An allocate_key call has returned the code of a slot that recycle_key had freed.
C6_Witness ==
    \E c \in Creators :
        /\ cpc[c] = "insert"
        /\ key_entry[c] # NoRow
        /\ swept
        /\ short_code[c] = key_pool[key_entry[c]].short_code

\* C7: no step of a resolve request changes the Code Pool or the Mapping Store,
\* whatever it answers (404, 410 or 302).
C7_ResolveReadOnly ==
    [][\A r \in Readers :
        (LookupStart(r) \/ LookupFill(r)) =>
            /\ key_pool' = key_pool
            /\ url_mapping' = url_mapping
            /\ Answers(r) => rstatus'[r] \in {404, 410, 302}
      ]_vars

\* A resolve was answered 410 and the mapping and its used slot are still there.
C7_Witness ==
    \E r \in Readers :
        /\ rpc[r] = "done" /\ rstatus[r] = 410
        /\ DocsOf(rkey[r]) # {}
        /\ SlotUsed(rkey[r])

\* C8: a create request without long_url is answered 400 in its first step, which
\* changes neither store nor the cache; no request without long_url ever reaches the
\* allocation or the insert.
C8_RejectMissingUrl ==
    /\ [][\A c \in Creators :
            (ShortenStart(c) /\ long_url'[c] = NoUrl) =>
                /\ status'[c] = 400
                /\ cpc'[c] = "done"
                /\ key_pool' = key_pool
                /\ url_mapping' = url_mapping
                /\ cache' = cache
         ]_vars
    /\ [](\A c \in Creators : cpc[c] \in {"select", "commit", "insert"} => long_url[c] # NoUrl)
    /\ [](\A d \in url_mapping : d.long_url # NoUrl)

\* A request without long_url was answered 400.
C8_Witness == \E c \in Creators : cpc[c] = "done" /\ status[c] = 400

\* C9: allocate_key retries after an IntegrityError only a bounded number of times
\* and then surfaces an error: the retries of a call (depth) stay below the horizon
\* MaxDepth up to which the model follows them.
C9_BoundedRetry == \A c \in Creators : depth[c] < MaxDepth

\* C10: a create request that failed at the Mapping Store write leaves no slot
\* marked used without a mapping that references its code.
C10_NoPartialState ==
    \A c \in Creators :
        (cpc[c] = "done" /\ status[c] = 500) =>
            ~(SlotUsed(short_code[c]) /\ DocsOf(short_code[c]) = {})
\* C11: in every reachable state no code has a free slot while the Mapping Store
\* still holds a mapping of that code.
C11_NoFreeSlotWithMapping ==
    \A k \in Codes : ~(SlotFree(k) /\ DocsOf(k) # {})
\* C12: in every reachable state the Code Pool holds at most one slot per code and
\* the Mapping Store holds at most one mapping per short code.
C12_OneSlotOneMapping ==
    \A k \in Codes : Cardinality(RowsOf(k)) <= 1 /\ Cardinality(DocsOf(k)) <= 1
\* A cache entry of code k is stale: it holds a mapping that is no longer in the
\* Mapping Store (documents are never updated: the mapping was deleted).
Stale(k) == k \in DOMAIN cache /\ cache[k] # None /\ cache[k] \notin FindOne(k)
\* A step that ends a sweep cycle which ran to its end: the invalidation of a cycle
\* that processed records, or the scan of a cycle that found none.
SweepCycleEnds == SweepInvalidate \/ (SweepScan /\ spc' = "idle")

\* C13: an entry that is stale while a sweep cycle runs is gone from the cache when
\* that cycle ends, also when the cycle found no expired record and also when the
\* entry was filled by a lookup that overlapped the delete.
C13_StaleEntryEvicted ==
    [][SweepCycleEnds =>
          \A k \in DOMAIN cache' : ~(Stale(k) /\ cache'[k] = cache[k])
      ]_vars
\* The steps in which the processing of one expired record fails: delete_one raises
\* (the document stays), the query of recycle_key raises, its commit fails.
DeleteFails == SweepDelete /\ url_mapping' = url_mapping
RecycleQueryFails == RecycleSelect /\ spc' = "idle"
RecycleCommitFails == RecycleCommit /\ recycle_failed' # recycle_failed

\* C14: a failure on one expired record does not abort the batch: after the failing
\* step the job is still running, at the next record of its list or at the
\* invalidation that ends the cycle.
C14_FailureKeepsBatch ==
    [][(DeleteFails \/ RecycleQueryFails \/ RecycleCommitFails) =>
          /\ spc' \in {"delete", "recycle_select", "invalidate"}
          /\ expired_docs' = expired_docs
      ]_vars
\* C15: recycle_key never propagates a failure: each of its steps returns to the loop
\* of the sweep (the job goes on with the commit, the next record or the
\* invalidation); for a code without a slot it changes nothing, and a failing commit
\* leaves the Code Pool as it was.
C15_RecycleAbsorbs ==
    [][/\ (RecycleSelect \/ RecycleCommit) =>
              spc' \in {"recycle_commit", "delete", "invalidate"}
       /\ (RecycleSelect /\ spc' # "idle" /\ s_entry' = NoRow) => key_pool' = key_pool
       /\ RecycleCommitFails => key_pool' = key_pool
      ]_vars
\* A step of the sweep before its invalidation.
SweepWorks == SweepScan \/ SweepDelete \/ RecycleSelect \/ RecycleCommit
\* The running cycle has deleted at least one record.
Processed == spc \in {"recycle_select", "recycle_commit", "invalidate"} \/ idx > 1
\* The cache is invalidated only at the end of the batch: no step of the sweep before
\* SweepInvalidate changes the cache (an empty scan included), SweepInvalidate runs
\* when every listed record has been processed, and it clears the cache and ends the
\* cycle.
InvalidateAfterBatch ==
    /\ SweepWorks => cache' = cache
    /\ (SweepScan /\ expired_docs' = <<>>) => spc' = "idle"
    /\ SweepInvalidate =>
          /\ Len(expired_docs) > 0 /\ idx = Len(expired_docs)
          /\ \A d \in Scanned : d \notin url_mapping
          /\ cache' = EmptyCache
          /\ spc' = "idle"

CreateInOrder(c) ==
    /\ (cpc'[c] = "insert" /\ cpc[c] # "insert") =>
          /\ cpc[c] = "commit"
          /\ \E i \in 1..Len(key_pool') :
                key_pool'[i].short_code = short_code'[c] /\ key_pool'[i].used
          /\ url_mapping' = url_mapping
    /\ (cpc'[c] = "invalidate" /\ cpc[c] # "invalidate") =>
          /\ cpc[c] = "insert"
          /\ \E d \in url_mapping' \ url_mapping :
                d.short_code = short_code[c] /\ d.long_url = long_url[c]
          /\ cache' = cache
    /\ (status'[c] = 201 /\ status[c] # 201) =>
          /\ cpc[c] = "invalidate" /\ cpc'[c] = "done"
          /\ DOMAIN cache' = {}
          /\ storeVars' = storeVars
    /\ (url_mapping' \ url_mapping # {} /\ cpc'[c] # cpc[c]) => cpc[c] = "insert"
\* A lookup reads from the store the mapping of a create request that has not yet
\* invalidated the cache.
SeesUninvalidated(r, c) ==
    /\ LookupStart(r)
    /\ cpc[c] = "invalidate"
    /\ rkey'[r] = short_code[c]
    /\ rresult'[r] # None
    /\ rresult'[r][1] = UrlOf(c)

\* C17 as stated: within one create request the steps happen in the order allocate,
\* store, invalidate, the success response comes after all three, and no lookup
\* obtains the stored mapping before the invalidation of that request has happened.
C17_OrderAndVisibility ==
    [][/\ \A c \in Creators : CreateInOrder(c)
       /\ \A r \in Readers, c \in Creators : ~SeesUninvalidated(r, c)
      ]_vars

\* C17 as amended: within one create request the steps happen in the order
\* allocate, store, invalidate, and the success response comes after all three (the
\* stored mapping is readable from the store as soon as it is inserted).
C17_CreateOrder == [][\A c \in Creators : CreateInOrder(c)]_vars

\* A create request has answered 201 and its mapping is in the Mapping Store.
C17_Witness ==
    \E c \in Creators :
        /\ Completed(c)
        /\ \E d \in DocsOf(short_code[c]) : d.long_url = UrlOf(c)
\* C18: allocate_key mints only when its selection found no free slot: the selection
\* yields no row exactly when the pool has no free slot, a call grows the pool (by
\* the one row of a code that was not in it) only after such a selection, and a
\* call that selected a row returns the code of that row and adds no row.
C18_MintOnlyWhenNoFreeSlot ==
    [][\A c \in Creators :
        /\ AllocSelect(c) => (key_entry'[c] = NoRow <=> FreeRows = {})
        /\ (AllocCommit(c) /\ key_pool' # key_pool /\ key_entry[c] = NoRow) =>
              /\ Len(key_pool') = Len(key_pool) + 1
              /\ RowsOf(short_code'[c]) = {}
              /\ key_pool'[Len(key_pool')] = [short_code |-> short_code'[c], used |-> TRUE]
        /\ (AllocCommit(c) /\ Len(key_pool') # Len(key_pool)) => key_entry[c] = NoRow
        /\ (AllocCommit(c) /\ key_entry[c] # NoRow) =>
              /\ [i \in Rows |-> key_pool'[i].short_code] = [i \in Rows |-> key_pool[i].short_code]
              /\ short_code'[c] \in {key_pool[i].short_code : i \in Rows}
      ]_vars

\* A call has minted a second slot: its selection found the only slot used.
C18_Witness ==
    \E c \in Creators :
        /\ cpc[c] = "insert"
        /\ key_entry[c] = NoRow
        /\ Len(key_pool) = 2
        /\ key_pool[2].short_code = short_code[c]
        /\ FreeRows = {}
\* The mappings a step removes from the Mapping Store were listed by the scan of the
\* running cycle with an expires_at earlier than the time it sampled.
DeletesOnlyScanned ==
    \A d \in url_mapping \ url_mapping' :
        /\ spc = "delete" /\ d = expired_docs[idx]
        /\ d.expires_at # NoExpiry /\ d.expires_at < sweep_now
\* A step of the sweep that frees a slot leaves no mapping of that slot's code in
\* the Mapping Store other than mappings the scan listed as expired.
FreesOnlyScanned ==
    (RecycleCommit /\ key_pool' # key_pool) =>
        \A d \in DocsOf(expired_docs[idx].short_code) : d \in Scanned

\* C19: a sweep cycle deletes only mappings whose expires_at was earlier than the
\* time sampled at its scan, and a mapping that was not expired at the scan or was
\* inserted after it is neither deleted nor has its slot freed by that cycle.
C19_SweepOnlyExpired == [][DeletesOnlyScanned /\ FreesOnlyScanned]_vars
\* C20: every 302 answer of a resolve carries the long URL of a mapping that the
\* Mapping Store holds for that code when the answer is given, whether the answer
\* comes from the cache or from a store read (the answer is given by the step that
\* runs lines 114-124): the mapping it was computed from has not been deleted, so no
\* cached entry redirects to a deleted mapping's URL.
C20_RedirectToStoredMapping ==
    [][\A r \in Readers :
        (Answers(r) /\ rstatus'[r] = 302) =>
            /\ Served(r) \in FindOne(rkey'[r])
            /\ \E d \in DocsOf(rkey'[r]) : d.long_url = rurl'[r]
      ]_vars

\* A resolve was answered 302 for a code that a sweep had recycled and that was
\* issued again, and the entry of the code is in the cache.
C20_Witness ==
    \E r \in Readers :
        /\ rpc[r] = "done" /\ rstatus[r] = 302
        /\ rkey[r] \in DOMAIN cache
        /\ swept
        /\ \E d \in DocsOf(rkey[r]) : d.long_url = rurl[r]
====
